---- MODULE Spec2Model ----
(***************************************************************************)
(* Lattice Points Grapher: the induction tab's decomposition of the outer  *)
(* right triangle into unit triangles, the adjacency ordering of those     *)
(* triangles, the accumulated-region hull and the shared-edge locator,     *)
(* together with the two editing tabs (their vertex lists, their           *)
(* snapshots, the drag handle and the validators that gate a drag) and the *)
(* page events that drive them.  A second state machine calls the pure     *)
(* functions of geometry.js and pyodide-loader.js on drawn inputs.         *)
(***************************************************************************)
EXTENDS Integers, Sequences, FiniteSets, TLC

VARIABLES
    pc,                            \* position of initialize(): "decompose", "order", "ready";
                                   \* "geometry" while the pure functions are called
    inductionOuterTriangle,        \* constants.js: the outer triangle (never written)
    i, j,                          \* loop counters of the decomposer
    allTriangles,                  \* buildInductionTriangles: generation-order list
    ordered,                       \* buildInductionTriangles: the sequence being built
    used,                          \* buildInductionTriangles: keys of placed triangles
    inductionTriangles,            \* state.inductionTriangles
    inductionStep,                 \* state.inductionStep
    currentTab,                    \* state.currentTab
    pythonReady,                   \* pyodide-loader: "loading", "ready" or "failed"
    inductionSnapshots,            \* state.inductionSnapshots
    inductionAccumulatedSnapshots, \* state.inductionAccumulatedSnapshots
    sharedEdge,                    \* the edge drawInductionScene highlighted at the last draw
    activeHandle,                  \* state.activeHandle: None or Handle(index), index from 0
    triangleVertices,              \* state.triangleVertices
    additiveVertices,              \* state.additiveVertices
    triangleSnapshot,              \* state.triangleSnapshot
    additiveSnapshot,              \* state.additiveSnapshot
    drags,                         \* number of committed drags so far
    callArgs,                      \* the vertex list a pure function is called on
    callResult                     \* the last such call and what it returned

vars == <<pc, inductionOuterTriangle, i, j, allTriangles, ordered, used,
          inductionTriangles, inductionStep, currentTab, pythonReady,
          inductionSnapshots, inductionAccumulatedSnapshots, sharedEdge,
          activeHandle, triangleVertices, additiveVertices, triangleSnapshot,
          additiveSnapshot, drags, callArgs, callResult>>

(***************************************************************************)
(* Bounds and constants                                                    *)
(***************************************************************************)
MaxLeg == 4          \* largest leg length tried by the leg-length specification

QueryMargin == 2     \* step indexes are tried from -QueryMargin to T + QueryMargin

MaxDrags == 1        \* committed drags per run of the page

GridMax == 2         \* the pure functions are called on points of (0..GridMax) x (0..GridMax)

LegLength == 4       \* inductionOuterTriangle[1].x - inductionOuterTriangle[0].x

latticeRange == 10

QuadLength == 4      \* the additive tab's polygon has four vertices

TABS == [TRIANGLE |-> "triangle", ADDITIVE |-> "additive", INDUCTION |-> "induction"]

TabNames == {TABS.TRIANGLE, TABS.ADDITIVE, TABS.INDUCTION}

None == [none |-> TRUE]   \* JavaScript null

Handle(k) == [index |-> k]   \* a handle index held in state.activeHandle

Pt(x, y) == [x |-> x, y |-> y]

initialTriangle == <<Pt(-3, -2), Pt(3, -2), Pt(0, 4)>>

initialAdditive == <<Pt(-4, -1), Pt(3, -1), Pt(2, 4), Pt(-3, 4)>>

\* The outer triangle with right-angle vertex (-2,-2) and legs of length n.
OuterTriangle(n) == <<Pt(-2, -2), Pt(-2 + n, -2), Pt(-2, -2 + n)>>

(***************************************************************************)
(* Sequence helpers                                                        *)
(***************************************************************************)
Range(s) == {s[k] : k \in DOMAIN s}

\* Array.prototype.includes / some(v => v.x === p.x && v.y === p.y)
Includes(s, p) == \E k \in DOMAIN s : s[k] = p

(***************************************************************************)
(* geometry.js                                                             *)
(***************************************************************************)
orientation(a, b, c) == (b.x - a.x) * (c.y - a.y) - (b.y - a.y) * (c.x - a.x)

(***************************************************************************)
(* pyodide-loader.js                                                       *)
(***************************************************************************)
createEmptySnapshot ==
    [area |-> 0, boundary |-> 0, interior |-> 0,
     boundary_points |-> <<>>, interior_points |-> <<>>]

\* The counting oracle's answer for a vertex list: an uninterpreted value that
\* is determined by the vertex list it was asked about.
computeSnapshotPy(vertices) == [snapshot_of |-> vertices]

\* computePolygonSnapshot as one call: the loader's state, whether the call
\* into the oracle (toPy, compute_snapshot, toJs) raises, and the vertex list.
computePolygonSnapshotCall(ready, throws, vertices) ==
    IF ready # "ready" THEN createEmptySnapshot
    ELSE IF throws THEN createEmptySnapshot
    ELSE computeSnapshotPy(vertices)

\* The call as the page's handlers see it: once loaded, the oracle is taken
\* to answer every vertex list the page hands it.
computePolygonSnapshot(ready, vertices) ==
    IF ready # "ready" THEN createEmptySnapshot ELSE computeSnapshotPy(vertices)

createEmptyAdditiveSnapshot ==
    [t1 |-> createEmptySnapshot, t2 |-> createEmptySnapshot,
     union |-> createEmptySnapshot,
     shared_edge |-> [points |-> <<>>, interior_count |-> 0,
                      endpoints |-> <<(<<0, 0>>), (<<0, 0>>)>>]]

\* The additive oracle's answer, determined by the four vertices it was asked
\* about.
computeAdditiveSnapshotPy(vertices) == [additive_snapshot_of |-> vertices]

computeAdditiveSnapshotCall(ready, throws, vertices) ==
    IF ready # "ready" THEN createEmptyAdditiveSnapshot
    ELSE IF throws THEN createEmptyAdditiveSnapshot
    ELSE computeAdditiveSnapshotPy(vertices)

computeAdditiveSnapshot(ready, vertices) ==
    IF ready # "ready" THEN createEmptyAdditiveSnapshot
    ELSE computeAdditiveSnapshotPy(vertices)

(***************************************************************************)
(* induction.js: buildInductionTriangles                                   *)
(***************************************************************************)
\* Leg length read off the outer triangle.
LegOf(outer) == outer[2].x - outer[1].x

lowerTriangle(v0, gi, gj) ==
    [vertices |-> <<Pt(v0.x + gi, v0.y + gj),
                    Pt(v0.x + gi + 1, v0.y + gj),
                    Pt(v0.x + gi, v0.y + gj + 1)>>,
     gridPos |-> [i |-> gi, j |-> gj, type |-> "lower"]]

upperTriangle(v0, gi, gj) ==
    [vertices |-> <<Pt(v0.x + gi + 1, v0.y + gj),
                    Pt(v0.x + gi + 1, v0.y + gj + 1),
                    Pt(v0.x + gi, v0.y + gj + 1)>>,
     gridPos |-> [i |-> gi, j |-> gj, type |-> "upper"]]

\* Mutant: the two pushes of the loop body are swapped, "upper" first.
cellTrianglesUpperFirst(outer, gi, gj) ==
    IF gi + gj < LegOf(outer) - 1
    THEN <<upperTriangle(outer[1], gi, gj), lowerTriangle(outer[1], gi, gj)>>
    ELSE <<lowerTriangle(outer[1], gi, gj)>>

\* Mutant: the "upper" triangle is pushed for the cells on the hypotenuse too
\* (the test i + j < n - 1 written as i + j < n).
cellTrianglesUpperEverywhere(outer, gi, gj) ==
    IF gi + gj < LegOf(outer)
    THEN <<lowerTriangle(outer[1], gi, gj), upperTriangle(outer[1], gi, gj)>>
    ELSE <<lowerTriangle(outer[1], gi, gj)>>

\* The triangles one pass of the inner loop body pushes for cell (gi, gj).
cellTriangles(outer, gi, gj) ==
    IF gi + gj < LegOf(outer) - 1
    THEN <<lowerTriangle(outer[1], gi, gj), upperTriangle(outer[1], gi, gj)>>
    ELSE <<lowerTriangle(outer[1], gi, gj)>>

\* getKey: the sorted, joined vertex strings; two keys are equal exactly when
\* the triangles have the same vertices with the same multiplicities.
getKey(verts) ==
    [p \in Range(verts) |-> Cardinality({k \in DOMAIN verts : verts[k] = p})]

\* Mutant: one common vertex is taken for a shared edge (shared === 1).
sharesEdgeOneVertex(v1, v2) ==
    Cardinality({k \in DOMAIN v1 : Includes(v2, v1[k])}) = 1

sharesEdge(v1, v2) ==
    Cardinality({k \in DOMAIN v1 : Includes(v2, v1[k])}) = 2

\* allTriangles.find(gridPos is (0,0) lower): index of the first match, 0 if none.
startTriIndex(all) ==
    LET hits == {k \in DOMAIN all : /\ all[k].gridPos.i = 0
                                    /\ all[k].gridPos.j = 0
                                    /\ all[k].gridPos.type = "lower"}
    IN IF hits = {} THEN 0 ELSE CHOOSE k \in hits : \A m \in hits : k <= m

\* Mutant: the scan does not skip the triangles that are already placed.
adjacentIndexIgnoringUsed(all, ord, usedKeys) ==
    LET hits == {k \in DOMAIN all :
                    \E m \in DOMAIN ord : sharesEdge(ord[m], all[k].vertices)}
    IN IF hits = {} THEN 0 ELSE CHOOSE k \in hits : \A m \in hits : k <= m

\* Mutant: the scan has lost its two `break`s, so the last candidate found
\* is the one appended.
adjacentIndexLatestHit(all, ord, usedKeys) ==
    LET hits == {k \in DOMAIN all :
                    /\ getKey(all[k].vertices) \notin usedKeys
                    /\ \E m \in DOMAIN ord : sharesEdge(ord[m], all[k].vertices)}
    IN IF hits = {} THEN 0 ELSE CHOOSE k \in hits : \A m \in hits : k >= m

\* Mutant: a candidate is compared with the last placed triangle only.
adjacentIndexLastOnly(all, ord, usedKeys) ==
    LET hits == {k \in DOMAIN all :
                    /\ getKey(all[k].vertices) \notin usedKeys
                    /\ Len(ord) > 0
                    /\ sharesEdge(ord[Len(ord)], all[k].vertices)}
    IN IF hits = {} THEN 0 ELSE CHOOSE k \in hits : \A m \in hits : k <= m

\* The scan of the while body: index of the first unplaced triangle, in
\* generation order, that shares an edge with some placed triangle; 0 if none.
adjacentIndex(all, ord, usedKeys) ==
    LET hits == {k \in DOMAIN all :
                    /\ getKey(all[k].vertices) \notin usedKeys
                    /\ \E m \in DOMAIN ord : sharesEdge(ord[m], all[k].vertices)}
    IN IF hits = {} THEN 0 ELSE CHOOSE k \in hits : \A m \in hits : k <= m

\* The fallback scan: index of the first unplaced triangle; 0 if none.
fallbackIndex(all, usedKeys) ==
    LET hits == {k \in DOMAIN all : getKey(all[k].vertices) \notin usedKeys}
    IN IF hits = {} THEN 0 ELSE CHOOSE k \in hits : \A m \in hits : k <= m

\* The index the while body appends in one iteration; 0 if it appends nothing.
nextIndex(all, ord, usedKeys) ==
    IF adjacentIndex(all, ord, usedKeys) # 0
    THEN adjacentIndex(all, ord, usedKeys)
    ELSE fallbackIndex(all, usedKeys)

(***************************************************************************)
(* induction.js: getAccumulatedPolygon                                     *)
(***************************************************************************)
\* `${v.x},${v.y}` and its parse (split(",").map(Number)): the text holds the
\* two integers, and parsing yields a fresh point with those coordinates.
pointString(v) == <<v.x, v.y>>

parsePoint(s) == Pt(s[1], s[2])

\* Set.add in insertion order: a string already present keeps its place.
setAdd(strings, s) == IF Includes(strings, s) THEN strings ELSE Append(strings, s)

\* The inner loop: the strings of one triangle's vertices, from vertex k on.
\* (In the loops below a test on the length of the value just built makes it
\* be computed before the loop goes on; it never selects the other branch.)
RECURSIVE addTriangleStrings(_, _, _)
addTriangleStrings(strings, tri, k) ==
    IF k > Len(tri) THEN strings
    ELSE LET added == setAdd(strings, pointString(tri[k]))
         IN IF Len(added) > 0 THEN addTriangleStrings(added, tri, k + 1) ELSE added

\* The pointSet loop over the first stepIndex triangles (from triangle k on).
RECURSIVE collectPointStrings(_, _, _, _)
collectPointStrings(tris, stepIndex, k, strings) ==
    IF k > stepIndex THEN strings
    ELSE LET added == addTriangleStrings(strings, tris[k], 1)
         IN IF Len(added) >= 0
            THEN collectPointStrings(tris, stepIndex, k + 1, added)
            ELSE added

\* Mutant: the loop bound is off by one upwards (i <= stepIndex), so the new
\* triangle's vertices are collected too.
accumulatedPointsInclusive(tris, stepIndex) ==
    LET strings == collectPointStrings(tris, stepIndex + 1, 1, <<>>)
    IN [k \in DOMAIN strings |-> parsePoint(strings[k])]

\* Mutant: the loop bound is off by one downwards (i < stepIndex - 1), so the
\* last placed triangle's vertices are left out.
accumulatedPointsShort(tris, stepIndex) ==
    LET strings == collectPointStrings(tris, stepIndex - 1, 1, <<>>)
    IN [k \in DOMAIN strings |-> parsePoint(strings[k])]

accumulatedPoints(tris, stepIndex) ==
    LET strings == collectPointStrings(tris, stepIndex, 1, <<>>)
    IN [k \in DOMAIN strings |-> parsePoint(strings[k])]

\* Mutant: the comparison of the reduce is reversed, which starts the walk at
\* the lexicographically largest point.
RECURSIVE reduceStartLargest(_, _, _)
reduceStartLargest(points, a, k) ==
    IF k > Len(points) THEN a
    ELSE LET b == points[k]
         IN reduceStartLargest(points,
                        IF a.x > b.x \/ (a.x = b.x /\ a.y > b.y) THEN a ELSE b,
                        k + 1)

\* points.reduce((a, b) => a.x < b.x || (a.x === b.x && a.y < b.y) ? a : b)
RECURSIVE reduceStart(_, _, _)
reduceStart(points, a, k) ==
    IF k > Len(points) THEN a
    ELSE LET b == points[k]
         IN reduceStart(points,
                        IF a.x < b.x \/ (a.x = b.x /\ a.y < b.y) THEN a ELSE b,
                        k + 1)

\* Mutant: the orientation test is reversed (> 0), which walks the hull
\* clockwise.
RECURSIVE scanNextReversed(_, _, _, _)
scanNextReversed(points, current, next, k) ==
    IF k > Len(points) THEN next
    ELSE LET p == points[k]
         IN scanNextReversed(points, current,
                             IF next = current \/ orientation(current, next, p) > 0
                             THEN p ELSE next,
                             k + 1)

\* The inner for loop of the walk: next starts as points[0] and is replaced by
\* p when next is current or p lies strictly clockwise of current -> next.
RECURSIVE scanNext(_, _, _, _)
scanNext(points, current, next, k) ==
    IF k > Len(points) THEN next
    ELSE LET p == points[k]
         IN scanNext(points, current,
                     IF next = current \/ orientation(current, next, p) < 0
                     THEN p ELSE next,
                     k + 1)

\* The do ... while loop: push current, move to the scanned next, and go on
\* while current is not start and hull.length < points.length + 1.
RECURSIVE hullWalk(_, _, _, _)
hullWalk(points, start, current, hull) ==
    LET pushed == Append(hull, current)
        next == scanNext(points, current, points[1], 1)
    IN IF next # start /\ Len(pushed) < Len(points) + 1
       THEN hullWalk(points, start, next, pushed)
       ELSE pushed

\* The same loop, returning the value of `current` when the loop is left: it
\* is start when the walk closed, another point when the length guard
\* (hull.length < points.length + 1) ended it.
RECURSIVE hullWalkExit(_, _, _, _)
hullWalkExit(points, start, current, hull) ==
    LET pushed == Append(hull, current)
        next == scanNext(points, current, points[1], 1)
    IN IF next # start /\ Len(pushed) < Len(points) + 1
       THEN hullWalkExit(points, start, next, pushed)
       ELSE next

\* Mutant: the shortcut is taken only past the end (stepIndex > length), so the
\* full sequence goes through the hull walk.
getAccumulatedPolygonStrictEnd(tris, outer, stepIndex) ==
    IF stepIndex <= 0 THEN <<>>
    ELSE IF stepIndex > Len(tris) THEN outer
    ELSE LET points == accumulatedPoints(tris, stepIndex)
         IN IF Len(points) < 3 THEN points
            ELSE LET start == reduceStart(points, points[1], 2)
                 IN hullWalk(points, start, start, <<>>)

getAccumulatedPolygon(tris, outer, stepIndex) ==
    IF stepIndex <= 0 THEN <<>>
    ELSE IF stepIndex >= Len(tris) THEN outer
    ELSE LET points == accumulatedPoints(tris, stepIndex)
         IN IF Len(points) < 3 THEN points
            ELSE LET start == reduceStart(points, points[1], 2)
                 IN hullWalk(points, start, start, <<>>)

(***************************************************************************)
(* induction.js: getSharedEdgeForStep                                      *)
(***************************************************************************)
\* Mutant: only the same direction is compared.
matchesHullEdgeSameDirection(accumulated, e1, e2) ==
    \E k \in 1..Len(accumulated) :
        LET a1 == accumulated[k]
            a2 == accumulated[(k % Len(accumulated)) + 1]
        IN a1.x = e1.x /\ a1.y = e1.y /\ a2.x = e2.x /\ a2.y = e2.y

\* The inner loop over the hull's edges for the edge (e1, e2).
matchesHullEdge(accumulated, e1, e2) ==
    \E k \in 1..Len(accumulated) :
        LET a1 == accumulated[k]
            a2 == accumulated[(k % Len(accumulated)) + 1]
            sameDirection == a1.x = e1.x /\ a1.y = e1.y /\ a2.x = e2.x /\ a2.y = e2.y
            oppositeDirection == a1.x = e2.x /\ a1.y = e2.y /\ a2.x = e1.x /\ a2.y = e1.y
        IN sameDirection \/ oppositeDirection

\* Mutant: the loop stops after two edges (i < 2), so the wrapping edge
\* (v2, v0) is never tried.
RECURSIVE scanTriangleEdgesNoWrap(_, _, _)
scanTriangleEdgesNoWrap(newTri, accumulated, k) ==
    IF k >= 2 THEN None
    ELSE LET e1 == newTri[k + 1]
             e2 == newTri[((k + 1) % 3) + 1]
             e1InAcc == \E m \in DOMAIN accumulated :
                            accumulated[m].x = e1.x /\ accumulated[m].y = e1.y
             e2InAcc == \E m \in DOMAIN accumulated :
                            accumulated[m].x = e2.x /\ accumulated[m].y = e2.y
         IN IF e1InAcc /\ e2InAcc /\ matchesHullEdge(accumulated, e1, e2)
            THEN [start |-> e1, end |-> e2]
            ELSE scanTriangleEdgesNoWrap(newTri, accumulated, k + 1)

\* The outer loop over the new triangle's edges, from edge index k (0-based).
RECURSIVE scanTriangleEdges(_, _, _)
scanTriangleEdges(newTri, accumulated, k) ==
    IF k >= 3 THEN None
    ELSE LET e1 == newTri[k + 1]
             e2 == newTri[((k + 1) % 3) + 1]
             e1InAcc == \E m \in DOMAIN accumulated :
                            accumulated[m].x = e1.x /\ accumulated[m].y = e1.y
             e2InAcc == \E m \in DOMAIN accumulated :
                            accumulated[m].x = e2.x /\ accumulated[m].y = e2.y
         IN IF e1InAcc /\ e2InAcc /\ matchesHullEdge(accumulated, e1, e2)
            THEN [start |-> e1, end |-> e2]
            ELSE scanTriangleEdges(newTri, accumulated, k + 1)

getSharedEdgeForStep(tris, outer, stepIndex) ==
    IF stepIndex <= 0 \/ stepIndex >= Len(tris) THEN None
    ELSE LET newTri == tris[stepIndex + 1]
             accumulated == getAccumulatedPolygon(tris, outer, stepIndex)
         IN IF Len(accumulated) < 2 THEN None
            ELSE scanTriangleEdges(newTri, accumulated, 0)

(***************************************************************************)
(* induction.js: computeInductionSnapshots                                 *)
(***************************************************************************)
\* The first loop: one snapshot per triangle of the cached sequence.
triangleSnapshots(ready, tris) ==
    [k \in DOMAIN tris |-> computePolygonSnapshot(ready, tris[k])]

\* Mutant: the push asks for more than 3 vertices (accPoly.length > 3).
RECURSIVE accumulatedSnapshotsStrictThreshold(_, _, _, _, _)
accumulatedSnapshotsStrictThreshold(ready, tris, outer, k, snaps) ==
    IF k >= Len(tris) THEN snaps
    ELSE LET accPoly == getAccumulatedPolygon(tris, outer, k + 1)
             pushed == IF Len(accPoly) > 3
                       THEN Append(snaps, computePolygonSnapshot(ready, accPoly))
                       ELSE snaps
         IN IF Len(pushed) >= 0
            THEN accumulatedSnapshotsStrictThreshold(ready, tris, outer, k + 1, pushed)
            ELSE pushed

\* The second loop: a snapshot is pushed only for polygons of >= 3 vertices.
RECURSIVE accumulatedSnapshots(_, _, _, _, _)
accumulatedSnapshots(ready, tris, outer, k, snaps) ==
    IF k >= Len(tris) THEN snaps
    ELSE LET accPoly == getAccumulatedPolygon(tris, outer, k + 1)
             pushed == IF Len(accPoly) >= 3
                       THEN Append(snaps, computePolygonSnapshot(ready, accPoly))
                       ELSE snaps
         IN IF Len(pushed) >= 0
            THEN accumulatedSnapshots(ready, tris, outer, k + 1, pushed)
            ELSE pushed

(***************************************************************************)
(* geometry.js: the validators and the boundary points                     *)
(***************************************************************************)
Abs(n) == IF n < 0 THEN -n ELSE n

Min(a, b) == IF a < b THEN a ELSE b

Max(a, b) == IF a > b THEN a ELSE b

\* The while loop of gcd on x = |a|, y = |b|.
RECURSIVE gcdLoop(_, _)
gcdLoop(x, y) == IF y = 0 THEN x ELSE gcdLoop(y, x % y)

gcd(a, b) == gcdLoop(Abs(a), Abs(b))

\* The shoelace sum area2 over the edges from vertex k on.
RECURSIVE shoelaceSum(_, _)
shoelaceSum(vertices, k) ==
    IF k > Len(vertices) THEN 0
    ELSE LET current == vertices[k]
             next == vertices[(k % Len(vertices)) + 1]
         IN (current.x * next.y - next.x * current.y) + shoelaceSum(vertices, k + 1)

\* polygonAreaValue returns area2 / 2, which need not be an integer: the value
\* is kept as the fraction num / den.
polygonAreaValue(vertices) ==
    IF Len(vertices) < 3 THEN [num |-> 0, den |-> 1]
    ELSE [num |-> shoelaceSum(vertices, 1), den |-> 2]

\* b within the bounding box of a and c.
onSegment(a, b, c) ==
    /\ b.x >= Min(a.x, c.x)
    /\ b.x <= Max(a.x, c.x)
    /\ b.y >= Min(a.y, c.y)
    /\ b.y <= Max(a.y, c.y)

segmentsIntersect(p1, p2, p3, p4) ==
    LET o1 == orientation(p1, p2, p3)
        o2 == orientation(p1, p2, p4)
        o3 == orientation(p3, p4, p1)
        o4 == orientation(p3, p4, p2)
    IN IF o1 = 0 /\ onSegment(p1, p3, p2) THEN TRUE
       ELSE IF o2 = 0 /\ onSegment(p1, p4, p2) THEN TRUE
       ELSE IF o3 = 0 /\ onSegment(p3, p1, p4) THEN TRUE
       ELSE IF o4 = 0 /\ onSegment(p3, p2, p4) THEN TRUE
       ELSE o1 * o2 < 0 /\ o3 * o4 < 0

\* Mutant: the test that skips the pair (first edge, last edge) is missing.
edgePairsTestedWithWrap(n) ==
    {pair \in (0..(n - 1)) \X (0..(n - 1)) :
        /\ pair[2] >= pair[1] + 1
        /\ ~(Abs(pair[1] - pair[2]) <= 1)}

\* The pairs (i, j) of edge indices (from 0, as in the source) on which the
\* double loop of isSimplePolygon calls segmentsIntersect.
edgePairsTested(n) ==
    {pair \in (0..(n - 1)) \X (0..(n - 1)) :
        /\ pair[2] >= pair[1] + 1
        /\ ~(Abs(pair[1] - pair[2]) <= 1)
        /\ ~(pair[1] = 0 /\ pair[2] = n - 1)}

isSimplePolygon(vertices) ==
    LET n == Len(vertices)
        area == polygonAreaValue(vertices)
    IN IF n < 3 THEN FALSE
       ELSE IF Cardinality({pointString(vertices[k]) : k \in 1..n}) # n THEN FALSE
       \* Math.abs(area) < 0.5, with area = num / den
       ELSE IF 2 * Abs(area.num) < area.den THEN FALSE
       ELSE \A pair \in edgePairsTested(n) :
                ~segmentsIntersect(vertices[pair[1] + 1],
                                   vertices[((pair[1] + 1) % n) + 1],
                                   vertices[pair[2] + 1],
                                   vertices[((pair[2] + 1) % n) + 1])

\* Mutant: the other diagonal, b-d, is taken as the split.
trianglesOnOppositeSidesOtherDiagonal(vertices) ==
    IF Len(vertices) # 4 THEN FALSE
    ELSE LET oA == orientation(vertices[2], vertices[4], vertices[1])
             oC == orientation(vertices[2], vertices[4], vertices[3])
         IN IF oA = 0 \/ oC = 0 THEN FALSE ELSE oA * oC < 0

trianglesOnOppositeSides(vertices) ==
    IF Len(vertices) # 4 THEN FALSE
    ELSE LET a == vertices[1]
             b == vertices[2]
             c == vertices[3]
             d == vertices[4]
             oB == orientation(a, c, b)
             oD == orientation(a, c, d)
         IN IF oB = 0 \/ oD = 0 THEN FALSE ELSE oB * oD < 0

\* The strings one edge adds, from the j-th step on: start + step * j for
\* j = 0..steps.
RECURSIVE edgeSteps(_, _, _, _, _)
edgeSteps(start, stepX, stepY, steps, jj) ==
    IF jj > steps THEN <<>>
    ELSE <<(<<start.x + stepX * jj, start.y + stepY * jj>>)>>
             \o edgeSteps(start, stepX, stepY, steps, jj + 1)

\* The strings the loop body adds for the edge from start to end, in order.
edgePoints(start, end) ==
    LET dx == end.x - start.x
        dy == end.y - start.y
        steps == gcd(Abs(dx), Abs(dy))
    IN IF steps = 0 THEN <<pointString(start)>>
       ELSE edgeSteps(start, dx \div steps, dy \div steps, steps, 0)

\* boundary.add of a list of strings, in order.
RECURSIVE setAddAll(_, _, _)
setAddAll(strings, more, k) ==
    IF k > Len(more) THEN strings
    ELSE LET added == setAdd(strings, more[k])
         IN IF Len(added) >= 0 THEN setAddAll(added, more, k + 1) ELSE added

\* The for loop over the edges, from vertex k on.
RECURSIVE collectEdges(_, _, _)
collectEdges(vertices, k, boundary) ==
    IF k > Len(vertices) THEN boundary
    ELSE LET added == setAddAll(boundary,
                                edgePoints(vertices[k],
                                           vertices[(k % Len(vertices)) + 1]), 1)
         IN IF Len(added) >= 0 THEN collectEdges(vertices, k + 1, added) ELSE added

\* Mutant: the comparator orders by y first.
comparePointsYFirst(a, b) == IF a[2] = b[2] THEN a[1] - b[1] ELSE a[2] - b[2]

\* The comparator handed to sort: ([ax, ay], [bx, by]) => ax === bx ? ay - by : ax - bx
comparePoints(a, b) == IF a[1] = b[1] THEN a[2] - b[2] ELSE a[1] - b[1]

\* Array.prototype.sort with that comparator on pairwise different entries:
\* the entry the comparator puts before all others comes first.
RECURSIVE sortEntries(_)
sortEntries(entries) ==
    IF Len(entries) = 0 THEN <<>>
    ELSE LET first == CHOOSE k \in DOMAIN entries :
                          \A m \in DOMAIN entries : comparePoints(entries[k], entries[m]) <= 0
             rest == [m \in 1..(Len(entries) - 1) |->
                          IF m < first THEN entries[m] ELSE entries[m + 1]]
         IN <<entries[first]>> \o sortEntries(rest)

\* The entries are [x, y] pairs (the parsed strings), not points.
collectBoundaryPoints(vertices) == sortEntries(collectEdges(vertices, 1, <<>>))

(***************************************************************************)
(* render.js: drawInductionScene                                           *)
(***************************************************************************)
\* The edge drawScene highlights: only in the induction tab, only while a
\* next triangle exists and the step is positive.
drawnSharedEdge(tab, tris, outer, step) ==
    IF tab = TABS.INDUCTION /\ step < Len(tris) /\ step > 0
    THEN getSharedEdgeForStep(tris, outer, step)
    ELSE None

(***************************************************************************)
(* state.js / main.js: the page as a state machine                         *)
(***************************************************************************)
\* Module state before initialize() runs, for an outer triangle of leg n.
InitWith(n) ==
    /\ pc = "decompose"
    /\ inductionOuterTriangle = OuterTriangle(n)
    /\ i = 0
    /\ j = 0
    /\ allTriangles = <<>>
    /\ ordered = <<>>
    /\ used = {}
    /\ inductionTriangles = <<>>
    /\ inductionStep = 0
    /\ currentTab = TABS.TRIANGLE
    /\ pythonReady = "loading"
    /\ inductionSnapshots = <<>>
    /\ inductionAccumulatedSnapshots = <<>>
    /\ sharedEdge = None
    /\ activeHandle = None
    /\ triangleVertices = initialTriangle
    /\ additiveVertices = initialAdditive
    /\ triangleSnapshot = createEmptySnapshot
    /\ additiveSnapshot = createEmptyAdditiveSnapshot
    /\ drags = 0
    /\ callArgs = <<>>
    /\ callResult = None

Init == InitWith(LegLength)

\* The same page for every leg length up to MaxLeg.
InitLeg == \E n \in 1..MaxLeg : InitWith(n)

PageVars == <<inductionStep, currentTab, pythonReady, inductionSnapshots,
              inductionAccumulatedSnapshots, sharedEdge>>

BuildVars == <<i, j, allTriangles, ordered, used>>

EditVars == <<activeHandle, triangleVertices, additiveVertices, triangleSnapshot,
              additiveSnapshot, drags>>

CallVars == <<callArgs, callResult>>

\* buildInductionTriangles, lines 11-33: one pass of the inner loop body; the
\* outer loop advances when the inner loop is exhausted.
DecomposeCell ==
    /\ pc = "decompose"
    /\ i < LegOf(inductionOuterTriangle)
    /\ allTriangles' = allTriangles \o cellTriangles(inductionOuterTriangle, i, j)
    /\ IF j + 1 < LegOf(inductionOuterTriangle) - i
       THEN i' = i /\ j' = j + 1
       ELSE i' = i + 1 /\ j' = 0
    /\ UNCHANGED <<pc, inductionOuterTriangle, ordered, used, inductionTriangles>>
    /\ UNCHANGED PageVars
    /\ UNCHANGED EditVars
    /\ UNCHANGED CallVars

\* buildInductionTriangles, lines 35-54: the loops are over; seed the sequence.
SeedStart ==
    /\ pc = "decompose"
    /\ i >= LegOf(inductionOuterTriangle)
    /\ LET s == startTriIndex(allTriangles)
       IN IF s # 0
          THEN /\ ordered' = <<allTriangles[s].vertices>>
               /\ used' = {getKey(allTriangles[s].vertices)}
          ELSE UNCHANGED <<ordered, used>>
    /\ pc' = "order"
    /\ UNCHANGED <<inductionOuterTriangle, i, j, allTriangles, inductionTriangles>>
    /\ UNCHANGED PageVars
    /\ UNCHANGED EditVars
    /\ UNCHANGED CallVars

\* buildInductionTriangles, lines 56-81: one iteration of the while loop.
PlaceNext ==
    /\ pc = "order"
    /\ Len(ordered) < Len(allTriangles)
    /\ LET k == nextIndex(allTriangles, ordered, used)
       IN IF k # 0
          THEN /\ ordered' = Append(ordered, allTriangles[k].vertices)
               /\ used' = used \cup {getKey(allTriangles[k].vertices)}
          ELSE UNCHANGED <<ordered, used>>
    /\ UNCHANGED <<pc, inductionOuterTriangle, i, j, allTriangles, inductionTriangles>>
    /\ UNCHANGED PageVars
    /\ UNCHANGED EditVars
    /\ UNCHANGED CallVars

\* buildInductionTriangles, line 83, and the rest of initialize() up to the
\* await: the sequence is stored, the listeners attached, the scene drawn.
StoreSequence ==
    /\ pc = "order"
    /\ Len(ordered) >= Len(allTriangles)
    /\ inductionTriangles' = ordered
    /\ pc' = "ready"
    /\ sharedEdge' = drawnSharedEdge(currentTab, ordered, inductionOuterTriangle,
                                     inductionStep)
    /\ UNCHANGED <<inductionOuterTriangle, inductionStep, currentTab, pythonReady,
                   inductionSnapshots, inductionAccumulatedSnapshots>>
    /\ UNCHANGED BuildVars
    /\ UNCHANGED EditVars
    /\ UNCHANGED CallVars

\* computeInductionSnapshots as run with the loader in state `ready`.
ComputeInductionSnapshots(ready) ==
    /\ inductionSnapshots' = triangleSnapshots(ready, inductionTriangles)
    /\ inductionAccumulatedSnapshots' =
           accumulatedSnapshots(ready, inductionTriangles, inductionOuterTriangle,
                                0, <<>>)

\* Mutant: the snapshots are computed whether or not Python is ready (the
\* early return of recomputeCurrentTab is missing).
RecomputeCurrentTabAlways(tab, triVerts, addVerts) ==
    IF tab = TABS.TRIANGLE
    THEN /\ triangleSnapshot' = computePolygonSnapshot("ready", triVerts)
         /\ UNCHANGED <<additiveSnapshot, inductionSnapshots,
                        inductionAccumulatedSnapshots>>
    ELSE IF tab = TABS.ADDITIVE
    THEN /\ additiveSnapshot' = computeAdditiveSnapshot("ready", addVerts)
         /\ UNCHANGED <<triangleSnapshot, inductionSnapshots,
                        inductionAccumulatedSnapshots>>
    ELSE IF tab = TABS.INDUCTION
    THEN /\ ComputeInductionSnapshots("ready")
         /\ UNCHANGED <<triangleSnapshot, additiveSnapshot>>
    ELSE UNCHANGED <<triangleSnapshot, additiveSnapshot, inductionSnapshots,
                     inductionAccumulatedSnapshots>>

\* Mutant: the additive branch assigns the triangle tab's snapshot (a
\* copied line left unedited).
RecomputeCurrentTabCopiedBranch(tab, triVerts, addVerts) ==
    IF pythonReady # "ready"
    THEN UNCHANGED <<triangleSnapshot, additiveSnapshot, inductionSnapshots,
                     inductionAccumulatedSnapshots>>
    ELSE IF tab = TABS.TRIANGLE \/ tab = TABS.ADDITIVE
    THEN /\ triangleSnapshot' = computePolygonSnapshot(pythonReady, triVerts)
         /\ UNCHANGED <<additiveSnapshot, inductionSnapshots,
                        inductionAccumulatedSnapshots>>
    ELSE IF tab = TABS.INDUCTION
    THEN /\ ComputeInductionSnapshots(pythonReady)
         /\ UNCHANGED <<triangleSnapshot, additiveSnapshot>>
    ELSE UNCHANGED <<triangleSnapshot, additiveSnapshot, inductionSnapshots,
                     inductionAccumulatedSnapshots>>

\* recomputeCurrentTab for the tab being shown, on the vertex lists as they
\* are when it is called.
RecomputeCurrentTab(tab, triVerts, addVerts) ==
    IF pythonReady # "ready"
    THEN UNCHANGED <<triangleSnapshot, additiveSnapshot, inductionSnapshots,
                     inductionAccumulatedSnapshots>>
    ELSE IF tab = TABS.TRIANGLE
    THEN /\ triangleSnapshot' = computePolygonSnapshot(pythonReady, triVerts)
         /\ UNCHANGED <<additiveSnapshot, inductionSnapshots,
                        inductionAccumulatedSnapshots>>
    ELSE IF tab = TABS.ADDITIVE
    THEN /\ additiveSnapshot' = computeAdditiveSnapshot(pythonReady, addVerts)
         /\ UNCHANGED <<triangleSnapshot, inductionSnapshots,
                        inductionAccumulatedSnapshots>>
    ELSE IF tab = TABS.INDUCTION
    THEN /\ ComputeInductionSnapshots(pythonReady)
         /\ UNCHANGED <<triangleSnapshot, additiveSnapshot>>
    ELSE UNCHANGED <<triangleSnapshot, additiveSnapshot, inductionSnapshots,
                     inductionAccumulatedSnapshots>>

\* Mutant: the handler does not call setActiveHandle(null).
TabClickKeepingHandle ==
    /\ pc = "ready"
    /\ \E targetTab \in TabNames :
        /\ targetTab # currentTab
        /\ currentTab' = targetTab
        /\ RecomputeCurrentTab(targetTab, triangleVertices, additiveVertices)
        /\ sharedEdge' = drawnSharedEdge(targetTab, inductionTriangles,
                                         inductionOuterTriangle, inductionStep)
    /\ UNCHANGED <<pc, inductionOuterTriangle, inductionTriangles, inductionStep,
                   pythonReady, triangleVertices, additiveVertices, drags,
                   activeHandle>>
    /\ UNCHANGED BuildVars
    /\ UNCHANGED CallVars

\* A click on a tab button.
TabClick ==
    /\ pc = "ready"
    /\ \E targetTab \in TabNames :
        /\ targetTab # currentTab
        /\ currentTab' = targetTab
        /\ activeHandle' = None
        /\ RecomputeCurrentTab(targetTab, triangleVertices, additiveVertices)
        /\ sharedEdge' = drawnSharedEdge(targetTab, inductionTriangles,
                                         inductionOuterTriangle, inductionStep)
    /\ UNCHANGED <<pc, inductionOuterTriangle, inductionTriangles, inductionStep,
                   pythonReady, triangleVertices, additiveVertices, drags>>
    /\ UNCHANGED BuildVars
    /\ UNCHANGED CallVars

\* getActiveVertices
getActiveVertices(tab, triVerts, addVerts) ==
    IF tab = TABS.TRIANGLE THEN triVerts
    ELSE IF tab = TABS.ADDITIVE THEN addVerts
    ELSE <<>>

\* clampVertex on a point already rounded to integers.
clampVertex(vertex) ==
    Pt(Max(-latticeRange, Min(latticeRange, vertex.x)),
       Max(-latticeRange, Min(latticeRange, vertex.y)))

\* The lattice points (before clamping) the pointer is moved to.
PointerTargets == {Pt(3, -2), Pt(0, -2), Pt(-1, 2), Pt(12, 0)}

\* findHandle: the handles are 14 pixels wide and lattice points at least 32
\* pixels apart, so a position hits the vertices at one lattice point, and the
\* loop returns the first of them.
findHandleHits(verts) ==
    {k - 1 : k \in {m \in DOMAIN verts : \A l \in 1..(m - 1) : verts[l] # verts[m]}}

\* pointerdown on a handle (a pointerdown elsewhere changes nothing).
PointerDown ==
    /\ pc = "ready"
    /\ currentTab # TABS.INDUCTION
    /\ \E hit \in findHandleHits(getActiveVertices(currentTab, triangleVertices,
                                                   additiveVertices)) :
          activeHandle' = Handle(hit)
    /\ UNCHANGED <<pc, inductionOuterTriangle, inductionTriangles, triangleVertices,
                   additiveVertices, triangleSnapshot, additiveSnapshot, drags>>
    /\ UNCHANGED PageVars
    /\ UNCHANGED BuildVars
    /\ UNCHANGED CallVars

\* Mutant: only isSimplePolygon is asked.
dragAcceptedSimpleOnly(tab, addVerts) ==
    ~(tab = TABS.ADDITIVE /\ ~isSimplePolygon(addVerts))

\* The test of the pointermove handler on the list with the moved vertex
\* written into it: FALSE when the handler puts the vertex back.
dragAccepted(tab, addVerts) ==
    ~(tab = TABS.ADDITIVE
        /\ (~isSimplePolygon(addVerts) \/ ~trianglesOnOppositeSides(addVerts)))

\* pointermove while a handle is held.  A rejected move and a move of a
\* handle held in the induction tab (whose vertex list is a fresh empty
\* array) leave the vertex lists as they are.
PointerMove ==
    /\ pc = "ready"
    /\ activeHandle # None
    /\ drags < MaxDrags
    /\ \E pos \in PointerTargets :
        LET verts == getActiveVertices(currentTab, triangleVertices, additiveVertices)
            next == clampVertex(pos)
            held == activeHandle.index + 1
            moved == IF held \in DOMAIN verts
                     THEN [verts EXCEPT ![held] = next] ELSE verts
            triVerts == IF currentTab = TABS.TRIANGLE THEN moved ELSE triangleVertices
            addVerts == IF currentTab = TABS.ADDITIVE THEN moved ELSE additiveVertices
        IN /\ (held \in DOMAIN verts) => verts[held] # next
           /\ IF dragAccepted(currentTab, addVerts)
              THEN /\ triangleVertices' = triVerts
                   /\ additiveVertices' = addVerts
                   /\ RecomputeCurrentTab(currentTab, triVerts, addVerts)
                   /\ drags' = IF currentTab = TABS.INDUCTION THEN drags ELSE drags + 1
              ELSE UNCHANGED <<triangleVertices, additiveVertices, triangleSnapshot,
                               additiveSnapshot, inductionSnapshots,
                               inductionAccumulatedSnapshots, drags>>
    /\ sharedEdge' = drawnSharedEdge(currentTab, inductionTriangles,
                                     inductionOuterTriangle, inductionStep)
    /\ UNCHANGED <<pc, inductionOuterTriangle, inductionTriangles, inductionStep,
                   currentTab, pythonReady, activeHandle>>
    /\ UNCHANGED BuildVars
    /\ UNCHANGED CallVars

\* pointerup and pointercancel.
ReleasePointer ==
    /\ pc = "ready"
    /\ activeHandle' = None
    /\ UNCHANGED <<pc, inductionOuterTriangle, inductionTriangles, triangleVertices,
                   additiveVertices, triangleSnapshot, additiveSnapshot, drags>>
    /\ UNCHANGED PageVars
    /\ UNCHANGED BuildVars
    /\ UNCHANGED CallVars

\* Mutant: Reset re-initialises the whole induction state, the cached
\* sequence included.
StepToClearingOnReset(step) ==
    /\ inductionStep' = step
    /\ inductionTriangles' = IF step = 0 THEN <<>> ELSE inductionTriangles
    /\ sharedEdge' = drawnSharedEdge(currentTab, inductionTriangles,
                                     inductionOuterTriangle, step)
    /\ UNCHANGED <<pc, inductionOuterTriangle, currentTab,
                   pythonReady, inductionSnapshots, inductionAccumulatedSnapshots>>
    /\ UNCHANGED BuildVars
    /\ UNCHANGED EditVars
    /\ UNCHANGED CallVars

\* The step handlers redraw the scene after changing the step.
StepTo(step) ==
    /\ inductionStep' = step
    /\ sharedEdge' = drawnSharedEdge(currentTab, inductionTriangles,
                                     inductionOuterTriangle, step)
    /\ UNCHANGED <<pc, inductionOuterTriangle, inductionTriangles, currentTab,
                   pythonReady, inductionSnapshots, inductionAccumulatedSnapshots>>
    /\ UNCHANGED BuildVars
    /\ UNCHANGED EditVars
    /\ UNCHANGED CallVars

PrevClick ==
    /\ pc = "ready"
    /\ inductionStep > 0
    /\ StepTo(inductionStep - 1)

\* Mutant: the test of the Next handler is <= instead of <.
NextClickPastEnd ==
    /\ pc = "ready"
    /\ inductionStep <= Len(inductionTriangles)
    /\ StepTo(inductionStep + 1)

NextClick ==
    /\ pc = "ready"
    /\ inductionStep < Len(inductionTriangles)
    /\ StepTo(inductionStep + 1)

ResetClick ==
    /\ pc = "ready"
    /\ StepTo(0)

\* loadPyodide resolves: pythonReady is set and initialize() continues with
\* the first computation of the snapshots and a refresh.
LoadResolved ==
    /\ pc = "ready"
    /\ pythonReady = "loading"
    /\ pythonReady' = "ready"
    /\ triangleSnapshot' = computePolygonSnapshot("ready", triangleVertices)
    /\ additiveSnapshot' = computeAdditiveSnapshot("ready", additiveVertices)
    /\ ComputeInductionSnapshots("ready")
    /\ sharedEdge' = drawnSharedEdge(currentTab, inductionTriangles,
                                     inductionOuterTriangle, inductionStep)
    /\ UNCHANGED <<pc, inductionOuterTriangle, inductionTriangles, inductionStep,
                   currentTab, activeHandle, triangleVertices, additiveVertices,
                   drags>>
    /\ UNCHANGED BuildVars
    /\ UNCHANGED CallVars

\* loadPyodide rejects: initialize() reports the failure and goes on.
LoadRejected ==
    /\ pc = "ready"
    /\ pythonReady = "loading"
    /\ pythonReady' = "failed"
    /\ UNCHANGED <<pc, inductionOuterTriangle, inductionTriangles, inductionStep,
                   currentTab, inductionSnapshots, inductionAccumulatedSnapshots,
                   sharedEdge>>
    /\ UNCHANGED BuildVars
    /\ UNCHANGED EditVars
    /\ UNCHANGED CallVars

Next ==
    \/ DecomposeCell
    \/ SeedStart
    \/ PlaceNext
    \/ StoreSequence
    \/ TabClick
    \/ PointerDown
    \/ PointerMove
    \/ ReleasePointer
    \/ PrevClick
    \/ NextClick
    \/ ResetClick
    \/ LoadResolved
    \/ LoadRejected

Spec == Init /\ [][Next]_vars

SpecLeg == InitLeg /\ [][Next]_vars

(***************************************************************************)
(* The pure functions called on drawn inputs                               *)
(***************************************************************************)
Grid == {Pt(x, y) : x \in 0..GridMax, y \in 0..GridMax}

Corners == {Pt(x, y) : x \in {0, GridMax}, y \in {0, GridMax}}

\* Vertex lists of up to four grid points, and the lists of five corners.
InputLists ==
    UNION {[1..n -> Grid] : n \in 0..QuadLength} \cup [1..(QuadLength + 1) -> Corners]

LoaderStates == {"loading", "ready", "failed"}

InitGeometry ==
    /\ pc = "geometry"
    /\ callArgs \in InputLists
    /\ callResult = None
    /\ inductionOuterTriangle = OuterTriangle(LegLength)
    /\ i = 0
    /\ j = 0
    /\ allTriangles = <<>>
    /\ ordered = <<>>
    /\ used = {}
    /\ inductionTriangles = <<>>
    /\ inductionStep = 0
    /\ currentTab = TABS.TRIANGLE
    /\ pythonReady = "loading"
    /\ inductionSnapshots = <<>>
    /\ inductionAccumulatedSnapshots = <<>>
    /\ sharedEdge = None
    /\ activeHandle = None
    /\ triangleVertices = initialTriangle
    /\ additiveVertices = initialAdditive
    /\ triangleSnapshot = createEmptySnapshot
    /\ additiveSnapshot = createEmptyAdditiveSnapshot
    /\ drags = 0

Returned(fn, value) ==
    /\ pc = "geometry"
    /\ callResult' = [fn |-> fn, value |-> value]
    /\ UNCHANGED <<pc, inductionOuterTriangle, inductionTriangles, callArgs>>
    /\ UNCHANGED PageVars
    /\ UNCHANGED BuildVars
    /\ UNCHANGED EditVars

CallIsSimplePolygon ==
    /\ callArgs \in InputLists
    /\ Returned("isSimplePolygon", isSimplePolygon(callArgs))

CallTrianglesOnOppositeSides ==
    /\ callArgs \in InputLists
    /\ Returned("trianglesOnOppositeSides", trianglesOnOppositeSides(callArgs))

CallCollectBoundaryPoints ==
    /\ callArgs \in InputLists
    /\ Returned("collectBoundaryPoints", collectBoundaryPoints(callArgs))

NextGeometry ==
    \/ CallIsSimplePolygon
    \/ CallTrianglesOnOppositeSides
    \/ CallCollectBoundaryPoints

SpecGeometry == InitGeometry /\ [][NextGeometry]_vars

(***************************************************************************)
(* Properties                                                              *)
(***************************************************************************)
Built == pc = "ready"

\* The vertices of the first k triangles of a sequence.
PrefixVertices(tris, k) == UNION {Range(tris[m]) : m \in 1..k}

\* Doubled area of a triangle.
Area2(tri) ==
    LET o == orientation(tri[1], tri[2], tri[3]) IN IF o < 0 THEN -o ELSE o

\* Squared length of the side from a to b.
Dist2(a, b) == (b.x - a.x) * (b.x - a.x) + (b.y - a.y) * (b.y - a.y)

\* A right triangle with two legs of length 1: its sides have squared lengths
\* 1, 1 and 2.
IsUnitRightTriangle(tri) ==
    /\ Len(tri) = 3
    /\ \E r \in 1..3 :
        LET a == tri[r]
            b == tri[(r % 3) + 1]
            c == tri[((r + 1) % 3) + 1]
        IN Dist2(a, b) = 1 /\ Dist2(a, c) = 1 /\ Dist2(b, c) = 2

RECURSIVE SumArea2(_, _)
SumArea2(all, k) ==
    IF k > Len(all) THEN 0 ELSE Area2(all[k].vertices) + SumArea2(all, k + 1)

\* C1: once buildInductionTriangles has run for the outer triangle of leg 4,
\* state.inductionTriangles is a permutation of the decomposer's output: it has
\* as many entries as the decomposition and every decomposed triangle, taken
\* as a vertex set, occurs in it exactly once; and the build loop ends, since
\* every iteration of the while loop places one more triangle.
C1_SequenceIsPermutation ==
    /\ (pc = "order" /\ Len(ordered) < Len(allTriangles))
          => nextIndex(allTriangles, ordered, used) # 0
    /\ pc = "order" => Len(ordered) <= Len(allTriangles)
    /\ Built =>
        /\ Len(inductionTriangles) = Len(allTriangles)
        /\ \A a \in DOMAIN allTriangles :
              Cardinality({m \in DOMAIN inductionTriangles :
                              Range(inductionTriangles[m])
                                  = Range(allTriangles[a].vertices)}) = 1

C1_Witness ==
    /\ Built
    /\ LegOf(inductionOuterTriangle) = 4
    /\ Len(allTriangles) = 16
    /\ Len(inductionTriangles) = 16

\* C2: in the sequence built for leg 4, every triangle after the first has at
\* least 2 of its vertices among the vertices of the triangles before it.
C2_SharesTwoWithEarlier ==
    Built =>
        \A k \in 2..Len(inductionTriangles) :
            Cardinality({v \in Range(inductionTriangles[k]) :
                            v \in PrefixVertices(inductionTriangles, k - 1)}) >= 2

\* Reached: a built sequence of 16 triangles in which some triangle has exactly
\* two, and some other all three, of its vertices among the earlier ones.
C2_Witness ==
    /\ Built
    /\ Len(inductionTriangles) = 16
    /\ \E k \in 2..Len(inductionTriangles) :
          Cardinality(Range(inductionTriangles[k])
                        \cap PrefixVertices(inductionTriangles, k - 1)) = 2
    /\ \E k \in 2..Len(inductionTriangles) :
          Cardinality(Range(inductionTriangles[k])
                        \cap PrefixVertices(inductionTriangles, k - 1)) = 3

\* C3: for leg length n the decomposer produces exactly n * n triangles, each
\* a unit right triangle, and their doubled areas add up to n * n.
C3_DecomposerCount ==
    pc # "decompose" =>
        LET n == LegOf(inductionOuterTriangle)
        IN /\ Len(allTriangles) = n * n
           /\ \A k \in DOMAIN allTriangles :
                 /\ IsUnitRightTriangle(allTriangles[k].vertices)
                 /\ Area2(allTriangles[k].vertices) = 1
           /\ SumArea2(allTriangles, 1) = n * n

\* Reached: the finished decomposition of the leg-4 triangle into 16
\* triangles, both orientations present.
C3_Witness ==
    /\ pc = "order"
    /\ LegOf(inductionOuterTriangle) = 4
    /\ Len(allTriangles) = 16
    /\ \E k \in DOMAIN allTriangles : allTriangles[k].gridPos.type = "upper"
    /\ \E k \in DOMAIN allTriangles : allTriangles[k].gridPos.type = "lower"

\* The polygon getAccumulatedPolygon returns for step k in the current state.
AccPoly(k) == getAccumulatedPolygon(inductionTriangles, inductionOuterTriangle, k)

\* The vertex after, and the second after, position m of a polygon of length n.
Succ1(m, n) == (m % n) + 1

Succ2(m, n) == ((m + 1) % n) + 1

\* C4: getAccumulatedPolygon(k) is the empty list for k <= 0, and for every
\* k >= T, T the length of the built sequence, it is exactly the outer
\* triangle's three vertices in their constant order: right-angle vertex, base
\* vertex, height vertex. The snapshot kept for the last step is therefore the
\* oracle's answer for the outer triangle.
C4_EmptyAndFullPolygon ==
    Built =>
        LET T == Len(inductionTriangles)
        IN /\ \A k \in (0 - QueryMargin)..0 : AccPoly(k) = <<>>
           /\ \A k \in T..(T + QueryMargin) :
                 /\ AccPoly(k) = inductionOuterTriangle
                 /\ AccPoly(k) = <<Pt(-2, -2), Pt(2, -2), Pt(-2, 2)>>
           /\ pythonReady = "ready" =>
                 /\ Len(inductionAccumulatedSnapshots) = T
                 /\ inductionAccumulatedSnapshots[T]
                       = computeSnapshotPy(<<Pt(-2, -2), Pt(2, -2), Pt(-2, 2)>>)

\* Reached: the induction tab showing the last step of the 16, with the
\* snapshots computed.
C4_Witness ==
    /\ Built
    /\ pythonReady = "ready"
    /\ currentTab = TABS.INDUCTION
    /\ Len(inductionTriangles) = 16
    /\ inductionStep = Len(inductionTriangles)

\* C5: for 0 < k < T every vertex of getAccumulatedPolygon(k) is a vertex of
\* one of the first k triangles of the sequence, and for k >= T every vertex
\* returned is a vertex of some triangle of the sequence.
C5_HullVerticesFromPrefix ==
    Built =>
        LET T == Len(inductionTriangles)
        IN /\ \A k \in 1..(T - 1) :
                 Range(AccPoly(k)) \subseteq PrefixVertices(inductionTriangles, k)
           /\ \A k \in T..(T + QueryMargin) :
                 Range(AccPoly(k)) \subseteq PrefixVertices(inductionTriangles, T)

\* Reached: a built sequence with a step whose polygon has at least 3 vertices
\* and leaves out some vertex of the prefix.
C5_Witness ==
    /\ Built
    /\ \E k \in 1..(Len(inductionTriangles) - 1) :
          /\ Len(AccPoly(k)) >= 3
          /\ Range(AccPoly(k)) # PrefixVertices(inductionTriangles, k)

\* C6: for 0 < k <= T the polygon h returned by getAccumulatedPolygon(k) is
\* convex and counter-clockwise: orientation(h[i], h[i+1], h[i+2]) >= 0 for
\* every i, indexes wrapping.
C6_HullConvex ==
    Built =>
        \A k \in 1..Len(inductionTriangles) :
            LET h == AccPoly(k)
                n == Len(h)
            IN \A m \in 1..n :
                  orientation(h[m], h[Succ1(m, n)], h[Succ2(m, n)]) >= 0

\* Reached: a step whose polygon has a strict left turn, and a step whose
\* polygon has three consecutive collinear vertices.
C6_Witness ==
    /\ Built
    /\ \E k \in 1..Len(inductionTriangles) :
          LET h == AccPoly(k)
              n == Len(h)
          IN n >= 5 /\ \E m \in 1..n :
                orientation(h[m], h[Succ1(m, n)], h[Succ2(m, n)]) > 0
    /\ \E k \in 1..Len(inductionTriangles) :
          LET h == AccPoly(k)
              n == Len(h)
          IN n >= 5 /\ \E m \in 1..n :
                orientation(h[m], h[Succ1(m, n)], h[Succ2(m, n)]) = 0

\* C7: for 0 < k < T the polygon returned by getAccumulatedPolygon(k) encloses
\* the first k triangles: no vertex of those triangles lies strictly to the
\* right of a directed polygon edge (h[i], h[i+1]), indexes wrapping.
C7_HullEncloses ==
    Built =>
        \A k \in 1..(Len(inductionTriangles) - 1) :
            LET h == AccPoly(k)
                n == Len(h)
            IN \A p \in PrefixVertices(inductionTriangles, k) :
                  \A m \in 1..n : orientation(h[m], h[Succ1(m, n)], p) >= 0

\* Reached: a step at which some vertex of the prefix lies strictly inside the
\* polygon.
C7_Witness ==
    /\ Built
    /\ \E k \in 1..(Len(inductionTriangles) - 1) :
          LET h == AccPoly(k)
              n == Len(h)
          IN /\ n >= 3
             /\ \E p \in PrefixVertices(inductionTriangles, k) :
                   \A m \in 1..n : orientation(h[m], h[Succ1(m, n)], p) > 0

\* The edge getSharedEdgeForStep returns for step s in the current state.
SharedEdgeAt(s) ==
    getSharedEdgeForStep(inductionTriangles, inductionOuterTriangle, s)

\* C8: an edge returned by getSharedEdgeForStep(s), 0 < s < T, is shared with
\* the accumulated region: both its endpoints are vertices of one and the same
\* triangle among the first s triangles. Stated of the edge the renderer gets
\* for the step it shows.
C8_SharedEdgeBelongsToPlacedTriangle ==
    (Built /\ sharedEdge # None) =>
        \E m \in 1..inductionStep :
            /\ sharedEdge.start \in Range(inductionTriangles[m])
            /\ sharedEdge.end \in Range(inductionTriangles[m])

\* a and b are consecutive vertices of polygon h, in either direction.
IsHullEdge(h, a, b) ==
    \E m \in 1..Len(h) :
        \/ h[m] = a /\ h[Succ1(m, Len(h))] = b
        \/ h[m] = b /\ h[Succ1(m, Len(h))] = a

\* The edges (0-based index) of the triangle placed at step s that are edges
\* of the polygon of step s.
HullEdgesOfNewTriangle(s) ==
    {e \in 0..2 : IsHullEdge(AccPoly(s), inductionTriangles[s + 1][e + 1],
                             inductionTriangles[s + 1][((e + 1) % 3) + 1])}

\* C9: getSharedEdgeForStep(s) is none for s <= 0 and for s >= T; for
\* 0 < s < T it is the first edge of the new triangle, in the order (v0,v1),
\* (v1,v2), (v2,v0), whose endpoints are consecutive vertices of
\* getAccumulatedPolygon(s) in either direction, with start and end in the new
\* triangle's own direction, and it is none exactly when the new triangle has
\* no such edge.
C9_SharedEdgeIsFirstHullEdge ==
    Built =>
        LET T == Len(inductionTriangles)
        IN \A s \in (0 - QueryMargin)..(T + QueryMargin) :
              IF s <= 0 \/ s >= T THEN SharedEdgeAt(s) = None
              ELSE LET E == HullEdgesOfNewTriangle(s)
                       tri == inductionTriangles[s + 1]
                   IN /\ (E = {}) <=> (SharedEdgeAt(s) = None)
                      /\ E # {} =>
                            \E e \in E :
                               /\ \A f \in E : e <= f
                               /\ SharedEdgeAt(s) =
                                     [start |-> tri[e + 1],
                                      end |-> tri[((e + 1) % 3) + 1]]

\* Reached: a built sequence with a step for which none is returned, and a
\* step for which the edge returned is not the new triangle's first edge.
C9_Witness ==
    /\ Built
    /\ \E s \in 1..(Len(inductionTriangles) - 1) : SharedEdgeAt(s) = None
    /\ \E s \in 1..(Len(inductionTriangles) - 1) :
          /\ SharedEdgeAt(s) # None
          /\ SharedEdgeAt(s).start # inductionTriangles[s + 1][1]

\* C10: when the sequence starts with the grid (0,0) "lower" triangle followed
\* by the grid (0,0) "upper" triangle, getSharedEdgeForStep(1) is not none: its
\* endpoints are the two vertices common to both, (v0.x+1, v0.y) and
\* (v0.x, v0.y+1); this is the edge drawn when the induction tab shows step 1.
C10_FirstSharedEdge ==
    LET v0 == inductionOuterTriangle[1]
    IN (/\ Built
        /\ Len(inductionTriangles) >= 2
        /\ inductionTriangles[1] = lowerTriangle(v0, 0, 0).vertices
        /\ inductionTriangles[2] = upperTriangle(v0, 0, 0).vertices)
       => /\ SharedEdgeAt(1) # None
          /\ {SharedEdgeAt(1).start, SharedEdgeAt(1).end}
                = {Pt(v0.x + 1, v0.y), Pt(v0.x, v0.y + 1)}
          /\ (currentTab = TABS.INDUCTION /\ inductionStep = 1)
                => sharedEdge = SharedEdgeAt(1)

\* Reached: the induction tab at step 1, the "upper" triangle of cell (0,0)
\* being the one to glue onto the "lower" one, with an edge highlighted.
C10_Witness ==
    /\ Built
    /\ currentTab = TABS.INDUCTION
    /\ inductionStep = 1
    /\ inductionTriangles[1] = lowerTriangle(inductionOuterTriangle[1], 0, 0).vertices
    /\ inductionTriangles[2] = upperTriangle(inductionOuterTriangle[1], 0, 0).vertices
    /\ sharedEdge # None

\* The sequence as far as it has been built: ordered during the build,
\* state.inductionTriangles afterwards.
PlacedSequence == IF Built THEN inductionTriangles ELSE ordered

\* The generation indices the iteration that fills position p may append: the
\* triangles not among the first p - 1 placed ones that have exactly two
\* vertices in common with one of them.
Candidates(p) ==
    {k \in DOMAIN allTriangles :
        /\ \A m \in 1..(p - 1) : PlacedSequence[m] # allTriangles[k].vertices
        /\ \E m \in 1..(p - 1) :
              Cardinality(Range(PlacedSequence[m])
                              \cap Range(allTriangles[k].vertices)) = 2}

\* C11: the sequence starts with the "lower" triangle of grid cell (0,0), and
\* every later position holds the triangle that comes first in generation
\* order among the unplaced triangles sharing exactly two vertices with some
\* triangle placed before it; so the sequence is a function of the generation
\* order alone.
C11_EarliestAdjacentFirst ==
    /\ pc # "decompose" =>
          /\ Len(PlacedSequence) >= 1
          /\ PlacedSequence[1] = lowerTriangle(inductionOuterTriangle[1], 0, 0).vertices
    /\ \A p \in 2..Len(PlacedSequence) :
          /\ Candidates(p) # {}
          /\ \E k \in Candidates(p) :
                /\ \A m \in Candidates(p) : k <= m
                /\ PlacedSequence[p] = allTriangles[k].vertices

\* The build is over and at some position the scan had more than one
\* candidate to choose from.
C11_Witness ==
    /\ Built
    /\ Len(inductionTriangles) = 16
    /\ \E p \in 2..Len(inductionTriangles) : Cardinality(Candidates(p)) >= 2

\* C18: once buildInductionTriangles has stored the sequence, no handler
\* changes state.inductionTriangles, any triangle in it, or the outer
\* triangle: the step handlers, the tab handler and the snapshot computation,
\* which call getAccumulatedPolygon and getSharedEdgeForStep, leave them as
\* they are.
C18_SequenceWriteOnce ==
    [][Built => /\ inductionTriangles' = inductionTriangles
                /\ inductionOuterTriangle' = inductionOuterTriangle
                /\ Built']_vars

\* The sequence is stored, the steps have been walked to the end, reset, and
\* the snapshots computed from the sequence.
C18_Witness ==
    /\ Built
    /\ Len(inductionTriangles) = 16
    /\ inductionStep = 0
    /\ currentTab = TABS.INDUCTION
    /\ Len(inductionAccumulatedSnapshots) = 16
    /\ sharedEdge = None

\* C19: for every leg length from 1 to MaxLeg, each iteration of the while
\* loop finds its triangle in the adjacency scan, so the fallback branch is
\* never taken.
C19_FallbackNeverTaken ==
    (pc = "order" /\ Len(ordered) < Len(allTriangles))
        => adjacentIndex(allTriangles, ordered, used) # 0

\* The loop has run to its end for leg 4: fifteen iterations after the seed.
C19_Witness ==
    /\ pc = "order"
    /\ LegOf(inductionOuterTriangle) = 4
    /\ Len(ordered) = 16
    /\ Len(ordered) = Len(allTriangles)

\* C20: for 0 < k < T the walk starts at the lexicographically smallest of
\* the accumulated points and is left because the scan came back to the
\* start, not because the hull reached points.length + 1 entries; the polygon
\* returned has no vertex twice.
C20_WalkClosesAtStart ==
    Built =>
        \A k \in 1..(Len(inductionTriangles) - 1) :
            LET points == accumulatedPoints(inductionTriangles, k)
                start == reduceStart(points, points[1], 2)
                hull == AccPoly(k)
            IN Len(points) >= 3 =>
                /\ \A q \in Range(points) :
                      start.x < q.x \/ (start.x = q.x /\ start.y <= q.y)
                /\ hull[1] = start
                /\ hullWalkExit(points, start, start, <<>>) = start
                /\ Len(hull) < Len(points) + 1
                /\ Cardinality(Range(hull)) = Len(hull)

\* A prefix whose hull leaves some of the accumulated points out.
C20_Witness ==
    /\ Built
    /\ \E k \in 1..(Len(inductionTriangles) - 1) :
          /\ Len(accumulatedPoints(inductionTriangles, k)) >= 8
          /\ Len(AccPoly(k)) < Len(accumulatedPoints(inductionTriangles, k))
          /\ Len(AccPoly(k)) >= 4

\* A vertex list passes both tests of the pointermove handler.
ValidAdditive(vertices) == isSimplePolygon(vertices) /\ trianglesOnOppositeSides(vertices)

\* The indices at which two lists of the same length differ.
ChangedAt(old, new) == {k \in DOMAIN old : old[k] # new[k]}

\* C12: state.additiveVertices passes isSimplePolygon and
\* trianglesOnOppositeSides in every state; it changes only in the additive
\* tab, at the held handle alone, and only to a list that passes both tests
\* (a move to any other list leaves it as it was); and state.additiveSnapshot
\* changes only to the oracle's answer for the list then held.
C12_AdditiveDragGated ==
    /\ [](ValidAdditive(additiveVertices))
    /\ [][/\ additiveVertices' # additiveVertices =>
                /\ currentTab = TABS.ADDITIVE
                /\ activeHandle # None
                /\ Len(additiveVertices') = Len(additiveVertices)
                /\ ChangedAt(additiveVertices, additiveVertices')
                      = {activeHandle.index + 1}
                /\ ValidAdditive(additiveVertices')
          /\ additiveSnapshot' # additiveSnapshot =>
                additiveSnapshot' = computeAdditiveSnapshotPy(additiveVertices')
         ]_vars

\* The moves of the held handle the pointermove handler puts back.
RejectedTargets ==
    {pos \in PointerTargets :
        /\ activeHandle # None
        /\ activeHandle.index + 1 \in DOMAIN additiveVertices
        /\ ~dragAccepted(currentTab,
                         [additiveVertices EXCEPT ![activeHandle.index + 1]
                                                      = clampVertex(pos)])}

\* A drag has been committed in the additive tab, and the handle still held
\* has a target the handler would put back.
C12_Witness ==
    /\ currentTab = TABS.ADDITIVE
    /\ additiveVertices # initialAdditive
    /\ pythonReady = "ready"
    /\ additiveSnapshot = computeAdditiveSnapshotPy(additiveVertices)
    /\ RejectedTargets # {}

\* C13: state.triangleVertices always holds three pairwise distinct vertices
\* that span a non-zero area, because a drag that would make the triangle
\* degenerate is rejected.
C13_TriangleNeverDegenerate ==
    /\ Len(triangleVertices) = 3
    /\ Cardinality(Range(triangleVertices)) = 3
    /\ orientation(triangleVertices[1], triangleVertices[2], triangleVertices[3]) # 0

\* Two edges (indices from 0) of an n-gon have an endpoint index in common.
ShareEndpointIndex(n, e, f) == {e, (e + 1) % n} \cap {f, (f + 1) % n} # {}

\* The four conditions of a simple polygon, as the claim lists them.
SimpleConditions(vertices) ==
    LET n == Len(vertices)
    IN /\ n >= 3
       /\ \A a \in 1..n : \A b \in (a + 1)..n : vertices[a] # vertices[b]
       \* |area| >= 0.5 with area = shoelace sum / 2
       /\ Abs(shoelaceSum(vertices, 1)) >= 1
       /\ \A e \in 0..(n - 1) : \A f \in (e + 1)..(n - 1) :
             ~ShareEndpointIndex(n, e, f) =>
                 ~segmentsIntersect(vertices[e + 1], vertices[((e + 1) % n) + 1],
                                    vertices[f + 1], vertices[((f + 1) % n) + 1])

Bowtie == <<Pt(0, 0), Pt(2, 2), Pt(2, 0), Pt(0, 2)>>

Square == <<Pt(0, 0), Pt(2, 0), Pt(2, 2), Pt(0, 2)>>

\* C14: isSimplePolygon returns true exactly for the lists with at least 3
\* vertices, pairwise distinct, of absolute shoelace area at least 0.5, in
\* which no two edges without a common endpoint index satisfy
\* segmentsIntersect; it is false for the bowtie and true for the square.
C14_IsSimplePolygon ==
    /\ (callResult # None /\ callResult.fn = "isSimplePolygon")
          => callResult.value = SimpleConditions(callArgs)
    /\ isSimplePolygon(Bowtie) = FALSE
    /\ isSimplePolygon(Square) = TRUE

\* isSimplePolygon has rejected four distinct vertices of non-zero area: the
\* crossing of two opposite edges decided.
C14_Witness ==
    /\ callResult = [fn |-> "isSimplePolygon", value |-> FALSE]
    /\ Len(callArgs) = 4
    /\ Cardinality(Range(callArgs)) = 4
    /\ Abs(shoelaceSum(callArgs, 1)) >= 1

\* C15: trianglesOnOppositeSides is true exactly for the lists [a, b, c, d]
\* in which orientation(a, c, b) and orientation(a, c, d) are non-zero with
\* opposite signs; it is true for the additive tab's initial vertices.
C15_TrianglesOnOppositeSides ==
    /\ (callResult # None /\ callResult.fn = "trianglesOnOppositeSides")
          => callResult.value =
                (/\ Len(callArgs) = 4
                 /\ LET oB == orientation(callArgs[1], callArgs[3], callArgs[2])
                        oD == orientation(callArgs[1], callArgs[3], callArgs[4])
                    IN (oB > 0 /\ oD < 0) \/ (oB < 0 /\ oD > 0))
    /\ trianglesOnOppositeSides(initialAdditive) = TRUE

\* trianglesOnOppositeSides has been called on a quadrilateral it accepts and
\* whose other diagonal does not split it.
C15_Witness ==
    /\ callResult = [fn |-> "trianglesOnOppositeSides", value |-> TRUE]
    /\ ~trianglesOnOppositeSidesOtherDiagonal(callArgs)

\* The integer point <<x, y>> lies on the segment from start to end.
OnEdge(q, start, end) ==
    /\ (q[1] - start.x) * (end.y - start.y) - (q[2] - start.y) * (end.x - start.x) = 0
    /\ q[1] >= Min(start.x, end.x)
    /\ q[1] <= Max(start.x, end.x)
    /\ q[2] >= Min(start.y, end.y)
    /\ q[2] <= Max(start.y, end.y)

\* The integer points around the input grid.
NearGrid == (-1..(GridMax + 1)) \X (-1..(GridMax + 1))

\* The greatest common divisor of two naturals that are not both 0.
IsGcd(g, a, b) ==
    /\ g >= 1
    /\ a % g = 0
    /\ b % g = 0
    /\ \A d \in 1..(a + b) : (a % d = 0 /\ b % d = 0) => d <= g

\* C16: collectBoundaryPoints returns the integer points lying on at least
\* one edge (consecutive vertices, the last joined to the first), each once,
\* in increasing order of x and then y; the edge from s to e contributes
\* gcd(|dx|, |dy|) + 1 points from s to e, and a single point when s = e.
C16_CollectBoundaryPoints ==
    /\ (callResult # None /\ callResult.fn = "collectBoundaryPoints") =>
          LET out == callResult.value
              n == Len(callArgs)
          IN /\ Range(out) =
                   {q \in NearGrid :
                       \E k \in 1..n : OnEdge(q, callArgs[k], callArgs[(k % n) + 1])}
             /\ \A k \in 1..(Len(out) - 1) :
                   \/ out[k][1] < out[k + 1][1]
                   \/ (out[k][1] = out[k + 1][1] /\ out[k][2] < out[k + 1][2])
             /\ \A k \in 1..n :
                   LET s == callArgs[k]
                       e == callArgs[(k % n) + 1]
                       pts == edgePoints(s, e)
                   IN /\ Range(pts) = {q \in NearGrid : OnEdge(q, s, e)}
                      /\ pts[1] = pointString(s)
                      /\ pts[Len(pts)] = pointString(e)
                      /\ IF s = e THEN Len(pts) = 1
                         ELSE /\ IsGcd(gcd(e.x - s.x, e.y - s.y),
                                       Abs(e.x - s.x), Abs(e.y - s.y))
                              /\ Len(pts) = gcd(e.x - s.x, e.y - s.y) + 1
                              /\ Cardinality(Range(pts)) = Len(pts)
    /\ Len(edgePoints(Pt(0, 0), Pt(3, 0))) = 4
    /\ Len(edgePoints(Pt(0, 0), Pt(2, 2))) = 3

\* collectBoundaryPoints has been called on a triangle with a diagonal edge
\* that passes through a lattice point.
C16_Witness ==
    /\ callArgs = <<Pt(0, 0), Pt(2, 0), Pt(2, 2)>>
    /\ callResult # None
    /\ callResult.fn = "collectBoundaryPoints"
    /\ callResult.value = <<(<<0, 0>>), (<<1, 0>>), (<<1, 1>>), (<<2, 0>>),
                            (<<2, 1>>), (<<2, 2>>)>>

\* C17: computePolygonSnapshot and computeAdditiveSnapshot return the empty
\* snapshot whenever Python is not ready or the call into the oracle raises;
\* and as long as Python is not ready every snapshot held in state is the
\* empty one (the two lists of induction snapshots hold none), while the tab,
\* pointer and step handlers stay enabled.
C17_EmptyUntilReady ==
    /\ \A ready \in LoaderStates : \A throws \in BOOLEAN :
          \A vertices \in {triangleVertices, additiveVertices} :
              (ready # "ready" \/ throws) =>
                  /\ computePolygonSnapshotCall(ready, throws, vertices)
                        = createEmptySnapshot
                  /\ computeAdditiveSnapshotCall(ready, throws, vertices)
                        = createEmptyAdditiveSnapshot
    /\ pythonReady # "ready" =>
          /\ triangleSnapshot = createEmptySnapshot
          /\ additiveSnapshot = createEmptyAdditiveSnapshot
          /\ inductionSnapshots = <<>>
          /\ inductionAccumulatedSnapshots = <<>>
    /\ (Built /\ pythonReady # "ready") =>
          /\ ENABLED TabClick
          /\ ENABLED ReleasePointer
          /\ ENABLED ResetClick
          /\ (currentTab # TABS.INDUCTION) => ENABLED PointerDown

\* Python failed to load; a drag was committed, tabs were switched and steps
\* clicked all the same.
C17_Witness ==
    /\ pythonReady = "failed"
    /\ drags >= 1
    /\ triangleVertices # initialTriangle
    /\ currentTab = TABS.ADDITIVE
    /\ inductionStep >= 2
    /\ triangleSnapshot = createEmptySnapshot

\* Generation order of two grid positions: i ascending, then j ascending,
\* "lower" before "upper" within a cell.
GeneratedBefore(g, h) ==
    \/ g.i < h.i
    \/ (g.i = h.i /\ g.j < h.j)
    \/ (g.i = h.i /\ g.j = h.j /\ g.type = "lower" /\ h.type = "upper")

\* C21: for leg 4 the stored sequence lists the triangles in the decomposer's
\* generation order, which is i ascending, then j ascending, "lower" before
\* "upper" within a cell: the reordering moves no triangle.
C21_OrderIsGenerationOrder ==
    /\ \A k \in 1..(Len(allTriangles) - 1) :
          GeneratedBefore(allTriangles[k].gridPos, allTriangles[k + 1].gridPos)
    /\ \A k \in DOMAIN PlacedSequence :
          PlacedSequence[k] = allTriangles[k].vertices
    /\ Built => Len(inductionTriangles) = Len(allTriangles)

\* The sequence is stored; its second entry is the "upper" triangle of cell
\* (0,0) and its last the "lower" triangle of cell (3,0).
C21_Witness ==
    /\ Built
    /\ Len(inductionTriangles) = 16
    /\ allTriangles[2].gridPos = [i |-> 0, j |-> 0, type |-> "upper"]
    /\ inductionTriangles[2] = allTriangles[2].vertices
    /\ allTriangles[16].gridPos = [i |-> 3, j |-> 0, type |-> "lower"]
    /\ inductionTriangles[16] = allTriangles[16].vertices

C24_StepInRange ==
    /\ [](/\ inductionStep >= 0
          /\ inductionStep <= Len(inductionTriangles)
          /\ (Built /\ inductionStep = 0) => ~ENABLED PrevClick
          /\ (Built /\ inductionStep = Len(inductionTriangles)) => ~ENABLED NextClick)
    /\ [][inductionStep' # inductionStep =>
             \/ inductionStep' = 0
             \/ (inductionStep' = inductionStep + 1
                    /\ inductionStep < Len(inductionTriangles))
             \/ (inductionStep' = inductionStep - 1 /\ inductionStep > 0)
         ]_vars

\* Next has been clicked up to the last step, outside the induction tab.
C24_Witness ==
    /\ Built
    /\ inductionStep = Len(inductionTriangles)
    /\ inductionStep = 16
    /\ currentTab = TABS.TRIANGLE

\* The handle indices of a tab's vertex list.
HandlesOf(tab) ==
    IF tab = TABS.TRIANGLE THEN 0..2
    ELSE IF tab = TABS.ADDITIVE THEN 0..3
    ELSE {}

\* C25: state.activeHandle is null or an index of the current tab's vertex
\* list, and null in the induction tab; a step that changes the tab leaves
\* it null, a handle is picked up only in the tab that stays current, and a
\* vertex list changes only in its own tab, at the held handle.
C25_HandleValid ==
    /\ [](activeHandle # None => activeHandle.index \in HandlesOf(currentTab))
    /\ [][/\ currentTab' # currentTab => activeHandle' = None
          /\ (activeHandle' # None /\ activeHandle' # activeHandle) =>
                /\ currentTab' = currentTab
                /\ activeHandle'.index \in HandlesOf(currentTab)
          /\ triangleVertices' # triangleVertices =>
                /\ currentTab = TABS.TRIANGLE
                /\ activeHandle # None
                /\ ChangedAt(triangleVertices, triangleVertices')
                      = {activeHandle.index + 1}
          /\ additiveVertices' # additiveVertices =>
                /\ currentTab = TABS.ADDITIVE
                /\ activeHandle # None
         ]_vars

\* A drag committed in the triangle tab, the tab switched, and the fourth
\* handle of the additive tab picked up.
C25_Witness ==
    /\ currentTab = TABS.ADDITIVE
    /\ activeHandle = Handle(3)
    /\ triangleVertices # initialTriangle

====
